---- MODULE Spec2Model ----
(***************************************************************************)
(* Model of services/batch_submit.py: submit(render_job_id, blend_uri,     *)
(* webhook), which builds a Cloud Batch job description and hands it to    *)
(* the remote create-job call.                                             *)
(*                                                                         *)
(* Text is a sequence of one-character strings wherever the code looks     *)
(* inside it (blend_uri, render_job_id, job_id, bucket names); the literal *)
(* fragments of an f-string are kept as single tokens and the interpolated *)
(* values are spliced between them.                                        *)
(***************************************************************************)
EXTENDS Integers, Sequences, FiniteSets, TLC

VARIABLES settings, pc, args, drawn, job_id, parent, out_uri, scene_bucket,
          script, client, job, calls, reply, job_name, error, log, jobs

vars == <<settings, pc, args, drawn, job_id, parent, out_uri, scene_bucket,
          script, client, job, calls, reply, job_name, error, log, jobs>>

\* ------------------------------------------------------------------ bounds
MaxBucketLen == 2
MaxPathLen == 2
MaxIdLen == 2

\* uuid.uuid4().hex[:6]
SuffixLen == 6

\* ----------------------------------------------------------------- helpers
Procs == {1, 2}

None == [some |-> FALSE, val |-> <<>>]
Some(v) == [some |-> TRUE, val |-> v]

SeqsUpTo(S, n) == UNION {[1..k -> S] : k \in 0..n}

Min(S) == CHOOSE x \in S : \A y \in S : x <= y

\* ---------------------------------------------------------------- settings
\* the module-level settings object: opaque provided values
SettingsSet ==
  { [project_id |-> <<"proj-a">>, region |-> <<"us-central1">>,
     bucket |-> <<"o","u","t">>,
     pipeline_manager_url |-> <<"https://pm.example">>],
    [project_id |-> <<"proj-b">>, region |-> <<"europe-west4">>,
     bucket |-> <<"b">>,
     pipeline_manager_url |-> <<"http://10.0.0.7:8080">>] }

\* ------------------------------------------------------------------ inputs
Schemes == {<<>>, <<"g","s">>, <<"s","3">>}
Seps == {<<":","/","/">>, <<":","/">>}
BucketChars == {"b", "k"}
PathChars == {"p", "/", "\n"}
Buckets == SeqsUpTo(BucketChars, MaxBucketLen)
Tails == {<<>>} \cup {<<"/">> \o t : t \in SeqsUpTo(PathChars, MaxPathLen)}
SceneUris == {s \o c \o b \o t : s \in Schemes, c \in Seps, b \in Buckets, t \in Tails}

IdChars == {"x", "-"}
RenderIds == SeqsUpTo(IdChars, MaxIdLen)

Webhooks == {None, Some(<<"https://hook.example/done">>),
             Some(<<"https://pm.example", "/actions/signal/rendering_process_post_blender">>)}

Inputs == [render_job_id : RenderIds, blend_uri : SceneUris, webhook : Webhooks]

\* two concurrent invocations: a small set that still has equal and
\* different ids, equal buckets with different paths, a
\* path with a line break in it and a scheme other than gs
ConcUris == { <<"g","s",":","/","/","b","/","p">>,
              <<"g","s",":","/","/","b","/","p","/","p">>,
              <<"g","s",":","/","/","k","/","p">>,
              <<"g","s",":","/","/","b","/","p","\n","p">>,
              <<"s","3",":","/","/","b","/","p">> }
ConcIds == {<<"x">>, <<"x","-">>}
ConcWebhooks == {None, Some(<<"https://hook.example/done">>)}
ConcInputs == [render_job_id : ConcIds, blend_uri : ConcUris, webhook : ConcWebhooks]

NoArgs == [render_job_id |-> <<>>, blend_uri |-> <<>>, webhook |-> None]

\* the first six hex digits of a uuid4 are all random
HexDigits == {"0", "f"}
Suffixes == {[i \in 1..SuffixLen |-> IF i <= k THEN a ELSE b] :
               a \in HexDigits, b \in HexDigits, k \in {0, 1}}

\* what the remote create-job call may report
RemoteErrors == {"Unauthenticated", "ResourceExhausted", "InvalidArgument"}

\* ------------------------------------------------------- pure computations
\* the suffix and the render id in each other's place
JobId_Swapped(render_job_id, hex6) ==
  <<"r","e","n","d","e","r","-">> \o hex6 \o <<"-">> \o render_job_id

\* f"render-{render_job_id}-{uuid.uuid4().hex[:6]}"
JobId(render_job_id, hex6) ==
  <<"r","e","n","d","e","r","-">> \o render_job_id \o <<"-">> \o hex6

\* f"projects/{project_id}/locations/{region}"
Parent(project_id, region) ==
  <<"projects/">> \o project_id \o <<"/locations/">> \o region

\* f"gs://{bucket}/renders/{render_job_id}/"
OutUri(bucket, render_job_id) ==
  <<"gs://">> \o bucket \o <<"/renders/">> \o render_job_id \o <<"/">>

\* the tail  .+$  of the pattern: one or more characters other than a line
\* break, then the end of the text or a line break that ends the text
DotPlusEnd(t) ==
  /\ Len(t) >= 1
  /\ \/ \A i \in 1..Len(t) : t[i] # "\n"
     \/ /\ Len(t) >= 2
        /\ t[Len(t)] = "\n"
        /\ \A i \in 1..(Len(t) - 1) : t[i] # "\n"

\* the pattern ^gs://(.+)/.+$ : the group runs to the last "/" that still
\* leaves a tail
ReMatch_Greedy(blend_uri) ==
  IF Len(blend_uri) >= 5 /\ SubSeq(blend_uri, 1, 5) = <<"g","s",":","/","/">>
  THEN LET rest == SubSeq(blend_uri, 6, Len(blend_uri))
           cuts == {i \in 2..Len(rest) :
                      /\ rest[i] = "/"
                      /\ \A k \in 1..(i - 1) : rest[k] # "\n"
                      /\ DotPlusEnd(SubSeq(rest, i + 1, Len(rest)))}
       IN  IF cuts = {} THEN None
           ELSE Some(SubSeq(rest, 1, (CHOOSE j \in cuts : \A k \in cuts : k <= j) - 1))
  ELSE None

\* re.match(r"^gs://([^/]+)/.+$", blend_uri): None, or the match's group 1.
\* [^/]+ must be followed by "/", so the group ends at the first "/" after
\* the prefix whatever the backtracking.
ReMatch(blend_uri) ==
  IF Len(blend_uri) >= 5 /\ SubSeq(blend_uri, 1, 5) = <<"g","s",":","/","/">>
  THEN LET rest == SubSeq(blend_uri, 6, Len(blend_uri))
           slashes == {i \in 1..Len(rest) : rest[i] = "/"}
       IN  IF slashes = {} THEN None
           ELSE LET j == Min(slashes)
                IN  IF j > 1 /\ DotPlusEnd(SubSeq(rest, j + 1, Len(rest)))
                    THEN Some(SubSeq(rest, 1, j - 1))
                    ELSE None
  ELSE None

CurlHead == "curl -X POST -d '{\"workflow_id\": \""
CurlMid == "\"}' -H \"Content-Type: application/json\" "
SignalPath == "/actions/signal/rendering_process_post_blender"

\* lines 29-44 of the f-string: steps 1) to 3) of the shell script (the two
\* emoji of the echo lines left out)
ScriptBody(render_job_id) ==
  <<"set -euo pipefail", "\n", "\n",
    "# 1) copy the uploaded blend (renders/<id>/<id>.blend) to ./scene.blend", "\n",
    "echo \"Copying .blend from renders/">> \o render_job_id \o <<"/">>
      \o render_job_id \o <<".blend\"", "\n",
    "cp \"", "/mnt/stateful_partition/in", "/renders/">> \o render_job_id \o <<"/">>
      \o render_job_id \o <<".blend", "\" scene.blend", "\n", "\n",
    "# 2) render a single frame (CPU)", "\n",
    "echo \"Rendering frame 1\"", "\n",
    "blender -b scene.blend -E CYCLES -f 1", "\n", "\n",
    "# 3) copy outputs back to out bucket", "\n",
    "OUT_DIR=/mnt/stateful_partition/out/renders/">> \o render_job_id \o <<"\n",
    "mkdir -p \"$OUT_DIR\"", "\n",
    "cp *.png \"$OUT_DIR/\"", "\n", "\n">>

\* lines 45-47 of the f-string: step 4), the curl POST
CallbackStep(render_job_id, pipeline_manager_url) ==
  <<"# 4) webhook (required)", "\n",
    "apt-get -qq update && apt-get -y install --no-install-recommends curl >/dev/null", "\n",
    CurlHead>> \o render_job_id \o <<CurlMid>> \o pipeline_manager_url
      \o <<SignalPath, "\n">>

\* a script that stops after step 3)
Script_NoCallback(render_job_id, pipeline_manager_url) ==
  ScriptBody(render_job_id)

\* a script whose POST goes to the bare base URL
Script_BareUrl(render_job_id, pipeline_manager_url) ==
  ScriptBody(render_job_id)
    \o <<"# 4) webhook (required)", "\n",
         "apt-get -qq update && apt-get -y install --no-install-recommends curl >/dev/null", "\n",
         CurlHead>> \o render_job_id \o <<CurlMid>> \o pipeline_manager_url \o <<"\n">>

\* the script of lines 29-48
Script(render_job_id, pipeline_manager_url) ==
  ScriptBody(render_job_id) \o CallbackStep(render_job_id, pipeline_manager_url)

\* batch_v1.Runnable(container=...)
Runnable(scr) ==
  [container |-> [image_uri |-> "docker.io/linuxserver/blender:3.5.0",
                  entrypoint |-> "/bin/bash",
                  commands |-> <<"-c", scr>>]]

\* a job whose two mounts are both on the input bucket
Job_SameBucket(render_job_id, in_bucket, bucket, run) ==
  [task_groups |->
     << [task_spec |->
           [runnables |-> <<run>>,
            volumes |->
              << [gcs |-> [remote_path |-> in_bucket],
                  mount_path |-> "/mnt/stateful_partition/in"],
                 [gcs |-> [remote_path |-> in_bucket],
                  mount_path |-> "/mnt/stateful_partition/out"] >>,
            compute_resource |-> [cpu_milli |-> 96000, memory_mib |-> 384 * 1024],
            max_run_duration |-> [seconds |-> 3600]],
         task_count |-> 1] >>,
   allocation_policy |->
     [instances |-> << [policy |-> [machine_type |-> "n2-standard-96"]] >>],
   logs_policy |-> [destination |-> "CLOUD_LOGGING", logs_path |-> "batch_task_logs"],
   labels |-> [render_job |-> render_job_id]]

\* batch_v1.Job(...)
Job(render_job_id, in_bucket, bucket, run) ==
  [task_groups |->
     << [task_spec |->
           [runnables |-> <<run>>,
            volumes |->
              << [gcs |-> [remote_path |-> in_bucket],
                  mount_path |-> "/mnt/stateful_partition/in"],
                 [gcs |-> [remote_path |-> bucket],
                  mount_path |-> "/mnt/stateful_partition/out"] >>,
            compute_resource |-> [cpu_milli |-> 96000, memory_mib |-> 384 * 1024],
            max_run_duration |-> [seconds |-> 3600]],
         task_count |-> 1] >>,
   allocation_policy |->
     [instances |-> << [policy |-> [machine_type |-> "n2-standard-96"]] >>],
   logs_policy |-> [destination |-> "CLOUD_LOGGING", logs_path |-> "batch_task_logs"],
   labels |-> [render_job |-> render_job_id]]

\* the name of a created job: projects/{project}/locations/{region}/jobs/{job_id}
CreatedName(par, jid) == par \o <<"/jobs/">> \o jid

\* --------------------------------------------------------------- the state
TypeOK ==
  /\ settings \in SettingsSet
  /\ pc \in [Procs -> {"idle", "L14", "L25", "L29", "L51", "L53", "L103",
                       "L104", "returned", "raised"}]
  /\ \A p \in Procs : Len(calls[p]) <= 1 /\ Len(log[p]) <= 2

InitCommon ==
  /\ settings \in SettingsSet
  /\ drawn = [p \in Procs |-> None]
  /\ job_id = [p \in Procs |-> None]
  /\ parent = [p \in Procs |-> None]
  /\ out_uri = [p \in Procs |-> None]
  /\ scene_bucket = [p \in Procs |-> None]
  /\ script = [p \in Procs |-> None]
  /\ client = [p \in Procs |-> FALSE]
  /\ job = [p \in Procs |-> None]
  /\ calls = [p \in Procs |-> <<>>]
  /\ reply = [p \in Procs |-> None]
  /\ job_name = [p \in Procs |-> None]
  /\ error = [p \in Procs |-> None]
  /\ log = [p \in Procs |-> <<>>]
  /\ jobs = <<>>

\* one invocation of submit, any arguments
Init ==
  /\ InitCommon
  /\ \E a \in Inputs : args = [p \in Procs |-> IF p = 1 THEN a ELSE NoArgs]
  /\ pc = [p \in Procs |-> IF p = 1 THEN "L14" ELSE "idle"]

\* two invocations of submit running at once
InitConc ==
  /\ InitCommon
  /\ args \in [Procs -> ConcInputs]
  /\ pc = [p \in Procs |-> "L14"]

\* ----------------------------------------------------------------- actions
\* a job id kept in a module-level variable and reused by the next invocation
GenJobId_Cached(p) ==
  /\ pc[p] = "L14"
  /\ \E hex6 \in Suffixes :
       /\ drawn' = [drawn EXCEPT ![p] = Some(hex6)]
       /\ job_id' = [job_id EXCEPT ![p] =
                       IF \E q \in Procs \ {p} : job_id[q].some
                       THEN job_id[CHOOSE q \in Procs \ {p} : job_id[q].some]
                       ELSE Some(JobId(args[p].render_job_id, hex6))]
  /\ parent' = [parent EXCEPT ![p] = Some(Parent(settings.project_id, settings.region))]
  /\ out_uri' = [out_uri EXCEPT ![p] = Some(OutUri(settings.bucket, args[p].render_job_id))]
  /\ pc' = [pc EXCEPT ![p] = "L25"]
  /\ UNCHANGED <<settings, args, scene_bucket, script, client, job, calls,
                 reply, job_name, error, log, jobs>>

\* lines 14-22: read the settings, draw the suffix, derive job_id, parent, out_uri
GenJobId(p) ==
  /\ pc[p] = "L14"
  /\ \E hex6 \in Suffixes :
       /\ drawn' = [drawn EXCEPT ![p] = Some(hex6)]
       /\ job_id' = [job_id EXCEPT ![p] = Some(JobId(args[p].render_job_id, hex6))]
  /\ parent' = [parent EXCEPT ![p] = Some(Parent(settings.project_id, settings.region))]
  /\ out_uri' = [out_uri EXCEPT ![p] = Some(OutUri(settings.bucket, args[p].render_job_id))]
  /\ pc' = [pc EXCEPT ![p] = "L25"]
  /\ UNCHANGED <<settings, args, scene_bucket, script, client, job, calls,
                 reply, job_name, error, log, jobs>>

\* lines 25-26: m = re.match(...); scene_bucket = m.group(1).
\* m is None when the pattern does not match, and None has no group().
MatchBucket(p) ==
  /\ pc[p] = "L25"
  /\ LET m == ReMatch(args[p].blend_uri)
     IN  IF m.some
         THEN /\ scene_bucket' = [scene_bucket EXCEPT ![p] = Some(m.val)]
              /\ pc' = [pc EXCEPT ![p] = "L29"]
              /\ UNCHANGED error
         ELSE /\ error' = [error EXCEPT ![p] =
                             Some([kind |-> "AttributeError", cause |-> None])]
              /\ pc' = [pc EXCEPT ![p] = "raised"]
              /\ UNCHANGED scene_bucket
  /\ UNCHANGED <<settings, args, drawn, job_id, parent, out_uri, script, client,
                 job, calls, reply, job_name, log, jobs>>

\* lines 29-48: the script text
BuildScript(p) ==
  /\ pc[p] = "L29"
  /\ script' = [script EXCEPT ![p] =
                  Some(Script(args[p].render_job_id, settings.pipeline_manager_url))]
  /\ pc' = [pc EXCEPT ![p] = "L51"]
  /\ UNCHANGED <<settings, args, drawn, job_id, parent, out_uri, scene_bucket,
                 client, job, calls, reply, job_name, error, log, jobs>>

\* line 51: client = batch_v1.BatchServiceClient()
MakeClient(p) ==
  /\ pc[p] = "L51"
  /\ client' = [client EXCEPT ![p] = TRUE]
  /\ pc' = [pc EXCEPT ![p] = "L53"]
  /\ UNCHANGED <<settings, args, drawn, job_id, parent, out_uri, scene_bucket,
                 script, job, calls, reply, job_name, error, log, jobs>>

\* the input mount put on the object (bucket and path) instead of the bucket
BuildJob_ObjectMount(p) ==
  /\ pc[p] = "L53"
  /\ job' = [job EXCEPT ![p] =
               Some(Job(args[p].render_job_id,
                        SubSeq(args[p].blend_uri, 6, Len(args[p].blend_uri)),
                        settings.bucket, Runnable(script[p].val)))]
  /\ pc' = [pc EXCEPT ![p] = "L103"]
  /\ UNCHANGED <<settings, args, drawn, job_id, parent, out_uri, scene_bucket,
                 script, client, calls, reply, job_name, error, log, jobs>>

\* lines 53-101: run and job
BuildJob(p) ==
  /\ pc[p] = "L53"
  /\ job' = [job EXCEPT ![p] =
               Some(Job(args[p].render_job_id, scene_bucket[p].val, settings.bucket,
                        Runnable(script[p].val)))]
  /\ pc' = [pc EXCEPT ![p] = "L103"]
  /\ UNCHANGED <<settings, args, drawn, job_id, parent, out_uri, scene_bucket,
                 script, client, calls, reply, job_name, error, log, jobs>>

\* lines 103-104: log, then client.create_job(parent=, job=, job_id=) is sent
CreateJob(p) ==
  /\ pc[p] = "L103"
  /\ log' = [log EXCEPT ![p] =
               Append(@, <<"Batch job object created", args[p].render_job_id,
                           job_id[p].val>>)]
  /\ calls' = [calls EXCEPT ![p] =
                 Append(@, [parent |-> parent[p].val, job |-> job[p].val,
                            job_id |-> job_id[p].val])]
  /\ pc' = [pc EXCEPT ![p] = "L104"]
  /\ UNCHANGED <<settings, args, drawn, job_id, parent, out_uri, scene_bucket,
                 script, client, job, reply, job_name, error, jobs>>

\* the remote service creates the job and answers with it
RemoteCreates(p) ==
  /\ pc[p] = "L104"
  /\ ~reply[p].some
  /\ LET req == calls[p][Len(calls[p])]
         name == CreatedName(req.parent, req.job_id)
     IN  /\ jobs' = Append(jobs, [name |-> name, job |-> req.job])
         /\ reply' = [reply EXCEPT ![p] = Some([ok |-> TRUE, name |-> name, exc |-> ""])]
  /\ UNCHANGED <<settings, pc, args, drawn, job_id, parent, out_uri, scene_bucket,
                 script, client, job, calls, job_name, error, log>>

\* the remote service refuses the call
RemoteFails(p) ==
  /\ pc[p] = "L104"
  /\ ~reply[p].some
  /\ \E e \in RemoteErrors :
       reply' = [reply EXCEPT ![p] = Some([ok |-> FALSE, name |-> <<>>, exc |-> e])]
  /\ UNCHANGED <<settings, pc, args, drawn, job_id, parent, out_uri, scene_bucket,
                 script, client, job, calls, job_name, error, log, jobs>>

\* a failed call caught and answered with an empty job name
Finish_Swallow(p) ==
  /\ pc[p] = "L104"
  /\ reply[p].some
  /\ job_name' = [job_name EXCEPT ![p] = Some(reply[p].val.name)]
  /\ log' = [log EXCEPT ![p] =
               Append(@, <<"Batch job submitted", args[p].render_job_id,
                           reply[p].val.name>>)]
  /\ pc' = [pc EXCEPT ![p] = "returned"]
  /\ UNCHANGED <<settings, args, drawn, job_id, parent, out_uri, scene_bucket,
                 script, client, job, calls, reply, jobs, error>>

\* a failed call sent once more
Finish_Retry(p) ==
  /\ pc[p] = "L104"
  /\ reply[p].some
  /\ IF reply[p].val.ok
     THEN /\ job_name' = [job_name EXCEPT ![p] = Some(reply[p].val.name)]
          /\ log' = [log EXCEPT ![p] =
                       Append(@, <<"Batch job submitted", args[p].render_job_id,
                                   reply[p].val.name>>)]
          /\ pc' = [pc EXCEPT ![p] = "returned"]
          /\ UNCHANGED <<error, reply>>
     ELSE /\ reply' = [reply EXCEPT ![p] = None]
          /\ pc' = [pc EXCEPT ![p] = "L103"]
          /\ UNCHANGED <<job_name, log, error>>
  /\ UNCHANGED <<settings, args, drawn, job_id, parent, out_uri, scene_bucket,
                 script, client, job, calls, jobs>>

\* lines 104-109: create_job returns or raises; there is no try/except around
\* it, so what it raises leaves submit as it is
Finish(p) ==
  /\ pc[p] = "L104"
  /\ reply[p].some
  /\ IF reply[p].val.ok
     THEN /\ job_name' = [job_name EXCEPT ![p] = Some(reply[p].val.name)]
          /\ log' = [log EXCEPT ![p] =
                       Append(@, <<"Batch job submitted", args[p].render_job_id,
                                   reply[p].val.name>>)]
          /\ pc' = [pc EXCEPT ![p] = "returned"]
          /\ UNCHANGED error
     ELSE /\ error' = [error EXCEPT ![p] =
                         Some([kind |-> reply[p].val.exc, cause |-> None])]
          /\ pc' = [pc EXCEPT ![p] = "raised"]
          /\ UNCHANGED <<job_name, log>>
  /\ UNCHANGED <<settings, args, drawn, job_id, parent, out_uri, scene_bucket,
                 script, client, job, calls, reply, jobs>>

Next ==
  \E p \in Procs :
    \/ GenJobId(p)
    \/ MatchBucket(p)
    \/ BuildScript(p)
    \/ MakeClient(p)
    \/ BuildJob(p)
    \/ CreateJob(p)
    \/ RemoteCreates(p)
    \/ RemoteFails(p)
    \/ Finish(p)

Spec == Init /\ [][Next]_vars

SpecConc == InitConc /\ [][Next]_vars

\* ------------------------------------------------- the properties' vocabulary
\* the first place at or after lo where tok stands in s (0: nowhere)
FirstAt(s, lo, tok) ==
  IF \E i \in lo..Len(s) : s[i] = tok
  THEN CHOOSE i \in lo..Len(s) : s[i] = tok /\ \A k \in lo..(i - 1) : s[k] # tok
  ELSE 0

\* a scene locator read as scheme://bucket/path: the scheme is what stands
\* before the first "://", the bucket the text between that "://" and the
\* next "/", the path what follows that "/"
Locator(u) ==
  LET seps == {i \in 1..(Len(u) - 2) : u[i] = ":" /\ u[i + 1] = "/" /\ u[i + 2] = "/"}
      c == IF seps = {} THEN 0 ELSE Min(seps)
      s == IF c = 0 THEN 0 ELSE FirstAt(u, c + 3, "/")
  IN  [sep |-> c, slash |-> s,
       scheme |-> IF c = 0 THEN <<>> ELSE SubSeq(u, 1, c - 1),
       bucket |-> IF s = 0 THEN <<>> ELSE SubSeq(u, c + 3, s - 1),
       path |-> IF s = 0 THEN <<>> ELSE SubSeq(u, s + 1, Len(u))]

\* scheme://bucket/path with a scheme, a bucket and a path that are not empty
WellFormedLocator(u) ==
  LET l == Locator(u)
  IN  l.sep > 0 /\ l.slash > 0 /\ l.scheme # <<>> /\ l.bucket # <<>> /\ l.path # <<>>

LocScheme(u) == Locator(u).scheme

\* the text between "://" and the next "/"
LocBucket(u) == Locator(u).bucket

LocPath(u) == Locator(u).path

\* a well-formed locator of scheme gs whose path has no line break
GsLocator(u) ==
  LET l == Locator(u)
  IN  /\ WellFormedLocator(u)
      /\ l.scheme = <<"g","s">>
      /\ \A i \in 1..Len(l.path) : l.path[i] # "\n"

\* the invocation is past lines 25-26
PastMatch(p) == pc[p] \notin {"idle", "L14", "L25"}

\* the invocation is past the construction of the job description
PastBuild(p) == pc[p] \in {"L103", "L104", "returned", "raised"}

\* t occurs in s as a contiguous run
Contains(s, t) ==
  \E i \in 0..(Len(s) - Len(t)) : SubSeq(s, i + 1, i + Len(t)) = t

HasCallback(s) == FirstAt(s, 1, CurlHead) > 0

\* the workflow_id of the JSON body of the POST
CallbackId(s) ==
  LET h == FirstAt(s, 1, CurlHead)
      m == FirstAt(s, h + 1, CurlMid)
  IN  SubSeq(s, h + 1, m - 1)

\* the URL of the POST: from the end of the headers to the end of the line
CallbackTarget(s) ==
  LET h == FirstAt(s, 1, CurlHead)
      m == FirstAt(s, h + 1, CurlMid)
      e == FirstAt(s, m + 1, "\n")
  IN  SubSeq(s, m + 1, e - 1)

TheVolumes(j) == j.task_groups[1].task_spec.volumes

\* ------------------------------------------------------------------ claims
\* C1 (as claimed): a scene_uri that is not of the form scheme://bucket/path
\* makes submit fail with an InvalidInputError, and no create-job call has
\* been attempted and no batch client made in that run.
C1_InvalidInputBeforeRemote ==
  \A p \in Procs :
    (PastMatch(p) /\ ~WellFormedLocator(args[p].blend_uri))
      => /\ pc[p] = "raised"
         /\ error[p].some
         /\ error[p].val.kind = "InvalidInputError"
         /\ calls[p] = <<>>
         /\ ~client[p]

\* C2 (as claimed): a failed create-job call ends submit in a SubmissionError
\* whose cause is the remote failure.
C2_SubmissionErrorWraps ==
  \A p \in Procs :
    (pc[p] = "raised" /\ reply[p].some)
      => /\ error[p].val.kind = "SubmissionError"
         /\ error[p].val.cause = Some(reply[p].val.exc)

\* C2 (amended): when the create-job call fails, the step that takes the
\* failure ends submit with that very failure as its error, not wrapped in
\* another kind; no job name is returned, no second call is made, and nothing
\* else of the invocation or of the remote bookkeeping changes.
C2_RemoteFailurePropagates ==
  [][\A p \in Procs :
       (pc[p] = "L104" /\ reply[p].some /\ ~reply[p].val.ok /\ pc'[p] # pc[p])
         => /\ pc'[p] = "raised"
            /\ error'[p] = Some([kind |-> reply[p].val.exc, cause |-> None])
            /\ ~job_name'[p].some
            /\ calls'[p] = calls[p] /\ Len(calls[p]) = 1
            /\ job_id'[p] = job_id[p] /\ parent'[p] = parent[p]
            /\ out_uri'[p] = out_uri[p] /\ scene_bucket'[p] = scene_bucket[p]
            /\ script'[p] = script[p] /\ job'[p] = job[p]
            /\ log'[p] = log[p] /\ jobs' = jobs /\ settings' = settings]_vars

C2_Witness ==
  \E p \in Procs :
    /\ pc[p] = "raised"
    /\ reply[p].some
    /\ reply[p].val.exc = "ResourceExhausted"
    /\ error[p].some

\* C3 (as claimed): for every well-formed scheme://bucket/path, whatever the
\* scheme, the extracted bucket is the text between "://" and the next "/",
\* and the input mount is on it.
C3_BucketAnyScheme ==
  \A p \in Procs :
    (PastMatch(p) /\ WellFormedLocator(args[p].blend_uri))
      => /\ scene_bucket[p] = Some(LocBucket(args[p].blend_uri))
         /\ job[p].some => TheVolumes(job[p].val)[1].gcs.remote_path
                             = LocBucket(args[p].blend_uri)

\* C3 (amended): for every well-formed gs://bucket/path whose path has no line
\* break, the extracted bucket is the text between "://" and the next "/",
\* and the input mount is on it.
C3_BucketOfGsLocator ==
  \A p \in Procs :
    (PastMatch(p) /\ GsLocator(args[p].blend_uri))
      => /\ scene_bucket[p] = Some(LocBucket(args[p].blend_uri))
         /\ job[p].some => TheVolumes(job[p].val)[1].gcs.remote_path
                             = LocBucket(args[p].blend_uri)

C3_Witness ==
  \E p \in Procs :
    /\ GsLocator(args[p].blend_uri)
    /\ Len(LocPath(args[p].blend_uri)) = 2
    /\ job[p].some
    /\ scene_bucket[p].some /\ Len(scene_bucket[p].val) = 2

\* C4 (as claimed): the script has a callback step exactly when a webhook was
\* supplied, and then its JSON body has render_job_id as workflow_id.
C4_CallbackIffWebhook ==
  \A p \in Procs :
    script[p].some
      => /\ HasCallback(script[p].val) <=> args[p].webhook.some
         /\ args[p].webhook.some => CallbackId(script[p].val) = args[p].render_job_id

\* C4 (amended): the script always has the callback step, with or without a
\* webhook argument, and its JSON body has render_job_id as workflow_id.
C4_CallbackAlways ==
  \A p \in Procs :
    script[p].some
      => /\ HasCallback(script[p].val)
         /\ CallbackId(script[p].val) = args[p].render_job_id

C4_Witness ==
  \E p \in Procs :
    /\ script[p].some
    /\ ~args[p].webhook.some
    /\ Len(args[p].render_job_id) > 0

\* C5 (as claimed): with a webhook supplied, the callback step targets that
\* URL, verbatim.
C5_TargetIsWebhook ==
  \A p \in Procs :
    (script[p].some /\ args[p].webhook.some /\ HasCallback(script[p].val))
      => CallbackTarget(script[p].val) = args[p].webhook.val

\* C5 (amended): the callback step targets the configured pipeline-manager
\* URL followed by /actions/signal/rendering_process_post_blender, whatever
\* the webhook argument is.
C5_TargetIsConfigured ==
  \A p \in Procs :
    script[p].some
      => /\ HasCallback(script[p].val)
         /\ CallbackTarget(script[p].val)
              = settings.pipeline_manager_url \o <<SignalPath>>

C5_Witness ==
  \E p \in Procs :
    /\ script[p].some
    /\ args[p].webhook.some
    /\ args[p].webhook.val # settings.pipeline_manager_url \o <<SignalPath>>

\* C6: an invocation issues at most one create-job call, exactly one once it
\* has reached the remote service, under projects/<project_id>/locations/
\* <region> of the settings; what it returns is the name of the response.
C6_OneCreateCall ==
  \A p \in Procs :
    /\ Len(calls[p]) <= 1
    /\ (pc[p] \in {"L104", "returned"} \/ reply[p].some) => Len(calls[p]) = 1
    /\ \A i \in 1..Len(calls[p]) :
         calls[p][i].parent
           = <<"projects/">> \o settings.project_id \o <<"/locations/">> \o settings.region
    /\ pc[p] = "returned"
         => /\ reply[p].some /\ reply[p].val.ok
            /\ job_name[p] = Some(reply[p].val.name)
    /\ job_name[p].some => pc[p] = "returned"

C6_Witness ==
  \E p \in Procs :
    /\ pc[p] = "returned"
    /\ Len(jobs) >= 1
    /\ job_name[p].some

\* C7: the job_id of a create-job call is "render-", then render_job_id, then
\* "-", then six hex digits.
C7_JobIdShape ==
  \A p \in Procs : \A i \in 1..Len(calls[p]) :
    LET jid == calls[p][i].job_id
        rid == args[p].render_job_id
    IN  /\ Len(jid) = 7 + Len(rid) + 1 + SuffixLen
        /\ SubSeq(jid, 1, 7) = <<"r","e","n","d","e","r","-">>
        /\ SubSeq(jid, 8, 7 + Len(rid)) = rid
        /\ jid[8 + Len(rid)] = "-"
        /\ \A k \in (9 + Len(rid))..Len(jid) :
             jid[k] \in {"0","1","2","3","4","5","6","7","8","9","a","b","c","d","e","f"}
        /\ drawn[p].some
        /\ SubSeq(jid, 9 + Len(rid), Len(jid)) = drawn[p].val

C7_Witness ==
  \E p \in Procs :
    /\ Len(calls[p]) = 1
    /\ Len(args[p].render_job_id) = 2
    /\ drawn[p].some /\ drawn[p].val[1] # drawn[p].val[2]

C9_Independent ==
  /\ \A p \in Procs :
       /\ job_id[p].some
            => /\ drawn[p].some
               /\ job_id[p].val = <<"r","e","n","d","e","r","-">>
                    \o args[p].render_job_id \o <<"-">> \o drawn[p].val
       /\ script[p].some => CallbackId(script[p].val) = args[p].render_job_id
       /\ job[p].some
            => /\ job[p].val.labels.render_job = args[p].render_job_id
               /\ TheVolumes(job[p].val)[1].gcs.remote_path = LocBucket(args[p].blend_uri)
               /\ job[p].val.task_groups[1].task_spec.runnables[1].container.commands[2]
                    = script[p].val
       /\ \A i \in 1..Len(calls[p]) :
            calls[p][i].job = job[p].val /\ calls[p][i].job_id = job_id[p].val
       /\ job_name[p].some
            => job_name[p].val
                 = <<"projects/">> \o settings.project_id \o <<"/locations/">>
                     \o settings.region \o <<"/jobs/">> \o job_id[p].val
  /\ \A p \in Procs : \A q \in Procs \ {p} :
       (args[p].render_job_id = args[q].render_job_id /\ job_id[p].some /\ job_id[q].some)
         => /\ (job_id[p] # job_id[q]) <=> (drawn[p] # drawn[q])
            /\ (pc[p] = "returned" /\ pc[q] = "returned")
                 => /\ Len(jobs) = 2
                    /\ (jobs[1].name # jobs[2].name) <=> (drawn[p] # drawn[q])

C9_Witness ==
  /\ pc[1] = "returned" /\ pc[2] = "returned"
  /\ args[1].render_job_id = args[2].render_job_id
  /\ drawn[1] # drawn[2]
  /\ Len(jobs) = 2

\* C10 (as claimed): two well-formed locators with the same bucket and
\* different paths, with the same render_job_id and webhook, make submit
\* extract the same bucket and build the same script and the same job
\* description (or none in both).
C10_PathDiscardedAnyScheme ==
  \A p \in Procs : \A q \in Procs \ {p} :
    ( /\ PastMatch(p) /\ PastMatch(q)
      /\ WellFormedLocator(args[p].blend_uri) /\ WellFormedLocator(args[q].blend_uri)
      /\ LocBucket(args[p].blend_uri) = LocBucket(args[q].blend_uri)
      /\ LocPath(args[p].blend_uri) # LocPath(args[q].blend_uri)
      /\ args[p].render_job_id = args[q].render_job_id
      /\ args[p].webhook = args[q].webhook )
      => /\ scene_bucket[p] = scene_bucket[q]
         /\ (PastBuild(p) /\ PastBuild(q)) => (script[p] = script[q] /\ job[p] = job[q])

\* C10 (amended): two well-formed gs:// locators without line breaks in their
\* paths, with the same bucket and different paths, with the same
\* render_job_id and webhook, make submit build the same script and the same
\* job description; the script copies its input from
\* renders/<render_job_id>/<render_job_id>.blend under the input mount.
C10_PathDiscarded ==
  /\ \A p \in Procs : \A q \in Procs \ {p} :
       ( /\ PastBuild(p) /\ PastBuild(q)
         /\ GsLocator(args[p].blend_uri) /\ GsLocator(args[q].blend_uri)
         /\ LocBucket(args[p].blend_uri) = LocBucket(args[q].blend_uri)
         /\ LocPath(args[p].blend_uri) # LocPath(args[q].blend_uri)
         /\ args[p].render_job_id = args[q].render_job_id
         /\ args[p].webhook = args[q].webhook )
         => /\ script[p].some /\ script[p] = script[q]
            /\ job[p].some /\ job[p] = job[q]
  /\ \A p \in Procs :
       script[p].some
         => Contains(script[p].val,
                     <<"cp \"", "/mnt/stateful_partition/in", "/renders/">>
                       \o args[p].render_job_id \o <<"/">> \o args[p].render_job_id
                       \o <<".blend", "\" scene.blend", "\n">>)

C10_Witness ==
  /\ PastBuild(1) /\ PastBuild(2)
  /\ GsLocator(args[1].blend_uri) /\ GsLocator(args[2].blend_uri)
  /\ LocBucket(args[1].blend_uri) = LocBucket(args[2].blend_uri)
  /\ LocPath(args[1].blend_uri) # LocPath(args[2].blend_uri)
  /\ args[1].render_job_id = args[2].render_job_id
  /\ args[1].webhook = args[2].webhook
  /\ job[1].some /\ job[2].some

====
